---- MODULE Spec2Model ----
(***************************************************************************)
(* BotForge webhook relay (src/main.py): the HTTP entry point (do_GET,     *)
(* do_POST), the update orchestrator (handle_update), the handler          *)
(* execution environment (execute_handler) and the bridge to the PHP host  *)
(* and to Telegram.                                                        *)
(*                                                                         *)
(* JSON values are records tagged by t: "null", "bool", "num", "str",      *)
(* "list", "obj", with the value in field b, n, s or l.  An object carries *)
(* its keys as further record fields, so a key that is missing from the    *)
(* record is a key missing from the dict.                                  *)
(* A Python str is a sequence of pieces: texts the code inspects are       *)
(* sequences of one-character strings, string literals of the code that    *)
(* are only passed on are one piece.  The value [t |-> "raise"] stands for *)
(* an exception of class Exception propagating out of an expression, the   *)
(* class every except clause of the code names.  The answer of a service   *)
(* (PHP host, Telegram) to a call is an input of the request.              *)
(***************************************************************************)
EXTENDS Integers, Sequences, FiniteSets, TLC

VARIABLES PHP_HOST, pc, request, outcome, response

vars == <<PHP_HOST, pc, request, outcome, response>>

\* ---------------------------------------------------------------- bounds
\* the longest list of commands the PHP host answers with
MaxCommands == 2
\* the longest request path, in pieces
MaxPathLen == 4

\* ----------------------------------------------------------- JSON values
None == [t |-> "null"]
Raise == [t |-> "raise"]
Bool(b) == [t |-> "bool", b |-> b]
Num(n) == [t |-> "num", n |-> n]
Str(s) == [t |-> "str", s |-> s]
List(l) == [t |-> "list", l |-> l]
EmptyObj == [t |-> "obj"]

IsRaise(j) == j.t = "raise"
IsDict(j) == j.t = "obj"
IsStr(j) == j.t = "str"

\* Python truth value of a JSON value
Truthy(j) ==
    CASE j.t = "null" -> FALSE
      [] j.t = "bool" -> j.b
      [] j.t = "num" -> j.n # 0
      [] j.t = "str" -> Len(j.s) > 0
      [] j.t = "list" -> Len(j.l) > 0
      [] j.t = "obj" -> DOMAIN j # {"t"}
      [] OTHER -> FALSE

\* d.get(key, default): AttributeError when d is not a dict
Get(d, key, default) ==
    IF IsRaise(d) THEN Raise
    ELSE IF ~IsDict(d) THEN Raise
    ELSE IF key \in DOMAIN d THEN d[key]
    ELSE default

\* a or b
Or(a, b) == IF IsRaise(a) THEN Raise ELSE IF Truthy(a) THEN a ELSE b

\* ------------------------------------------------------------ str methods
IsSpace(c) == c = " "

RECURSIVE lstrip(_)
lstrip(s) == IF s # <<>> /\ IsSpace(Head(s)) THEN lstrip(Tail(s)) ELSE s

RECURSIVE rstrip(_, _)
rstrip(s, c) ==
    IF s # <<>> /\ s[Len(s)] = c THEN rstrip(SubSeq(s, 1, Len(s) - 1), c) ELSE s

\* str.strip()
strip(s) == rstrip(lstrip(s), " ")

\* str.startswith(p)
startswith(s, p) == Len(s) >= Len(p) /\ SubSeq(s, 1, Len(p)) = p

\* the part of s before the first character satisfying the test
RECURSIVE UpTo(_, _)
UpTo(s, stop) ==
    IF s = <<>> \/ Head(s) \in stop THEN <<>> ELSE <<Head(s)>> \o UpTo(Tail(s), stop)

\* s.split()[0] for a stripped, non-empty s
FirstWord(s) == UpTo(s, {" "})

\* s.split(sep)[0]
BeforeSep(s, sep) == UpTo(s, {sep})

LowerOf ==
    [c \in {"A", "B", "F", "H", "O", "R", "S", "T"} |->
        CASE c = "A" -> "a" [] c = "B" -> "b" [] c = "F" -> "f" [] c = "H" -> "h"
          [] c = "O" -> "o" [] c = "R" -> "r" [] c = "S" -> "s" [] c = "T" -> "t"]

\* str.lower()
lower(s) == [i \in 1..Len(s) |-> IF s[i] \in DOMAIN LowerOf THEN LowerOf[s[i]] ELSE s[i]]

\* str(x) for the values a handler can leave in reply_text
Digit == <<"0", "1", "2", "3", "4", "5", "6", "7", "8", "9">>

PyStr(j) ==
    CASE j.t = "str" -> j
      [] j.t = "null" -> Str(<<"None">>)
      [] j.t = "num" /\ j.n \in 0..9 -> Str(<<Digit[j.n + 1]>>)
      [] OTHER -> Str(<<"<object>">>)

\* ------------------------------------------------- answers of the services
\* a request that ends in an exception inside urlopen or json.loads
Fail == [t |-> "fail"]

\* ---------------------------------------------------------------- helpers
\* telegram_send: the sendMessage call and the dict handed back
telegram_send(token, chat_id, text, answer) ==
    [calls |-> <<[op |-> "sendMessage", token |-> token, chat_id |-> chat_id, text |-> text]>>,
     v |-> IF answer = Fail THEN [t |-> "obj", ok |-> Bool(FALSE), error |-> Str(<<"error">>)]
           ELSE answer]

\* get_bot_commands: [] without a host, on any failure and without "commands"
get_bot_commands(host, token, answer) ==
    IF ~host THEN [calls |-> <<>>, v |-> List(<<>>)]
    ELSE [calls |-> <<[op |-> "getBotCommands", token |-> token]>>,
          v |-> IF answer = Fail THEN List(<<>>)
                ELSE LET got == Get(answer, "commands", List(<<>>))
                     IN IF IsRaise(got) THEN List(<<>>) ELSE got]

\* log_message: no call without a host; failures are swallowed
log_message(host, token, telegram_user_id, username, message, resp) ==
    IF ~host THEN <<>>
    ELSE <<[op |-> "logMessage", token |-> token, telegram_user_id |-> telegram_user_id,
            username |-> username, message |-> message, response |-> resp]>>

\* a log_error that never reaches the PHP host
log_error_silent(host, token, command_name, error_message, telegram_user_id) == <<>>

\* log_error: no call without a host; failures are swallowed
log_error(host, token, command_name, error_message, telegram_user_id) ==
    IF ~host THEN <<>>
    ELSE <<[op |-> "logError", token |-> token, command_name |-> command_name,
            error_message |-> error_message, telegram_user_id |-> telegram_user_id]>>

AiNotConfigured == Str(<<"AI is not configured.">>)
AiError == Str(<<"AI error">>)
AiUnavailable == Str(<<"AI unavailable: error">>)

\* call_ai: the reply field of the answer, or one of the fixed sentinels
call_ai(host, token, user_message, system_prompt, answer) ==
    IF ~host THEN [calls |-> <<>>, v |-> AiNotConfigured]
    ELSE [calls |-> <<[op |-> "aiChat", token |-> token, message |-> user_message,
                       system_prompt |-> system_prompt]>>,
          v |-> IF answer = Fail THEN AiUnavailable
                ELSE LET got == Get(answer, "reply", AiError)
                     IN IF IsRaise(got) THEN AiUnavailable ELSE got]

\* ------------------------------------------------------- execute_handler
DefaultHandlerCode == Str(<<"reply_text = 'Hi!'">>)
CodePass == Str(<<"pass">>)
CodeFirstName == Str(<<"reply_text = first_name">>)
CodeEmpty == Str(<<"reply_text = ''">>)
CodeDivZero == Str(<<"reply_text = 1/0">>)

\* exec(handler_code, {"__builtins__": {}}, local_vars): the locals afterwards,
\* or Raise (TypeError for code that is no str, the snippet's own error)
Exec(handler_code, local_vars) ==
    IF ~IsStr(handler_code) THEN Raise
    ELSE CASE handler_code = DefaultHandlerCode ->
                  [local_vars EXCEPT !.reply_text = Str(<<"Hi!">>)]
           [] handler_code = CodePass -> local_vars
           [] handler_code = CodeFirstName ->
                  [local_vars EXCEPT !.reply_text = local_vars.first_name]
           [] handler_code = CodeEmpty -> [local_vars EXCEPT !.reply_text = Str(<<>>)]
           [] OTHER -> Raise

NoVars == [t |-> "none"]

\* execute_handler: raised is "" on return, "RuntimeError" when the snippet
\* failed, "AttributeError" when building the variables failed
execute_handler(handler_code, user_message, update) ==
    LET msg == Get(update, "message", EmptyObj)
        chat_id == Get(Get(msg, "chat", EmptyObj), "id", Num(0))
        username == Get(Get(msg, "from", EmptyObj), "username", Str(<<"user">>))
        first == Get(Get(msg, "from", EmptyObj), "first_name", Str(<<"there">>))
    IN IF IsRaise(chat_id) \/ IsRaise(username) \/ IsRaise(first)
       THEN [raised |-> "AttributeError", v |-> None, local_vars |-> NoVars]
       ELSE LET local_vars == [t |-> "vars",
                               user_message |-> user_message,
                               chat_id |-> chat_id,
                               username |-> username,
                               first_name |-> first,
                               reply_text |-> Str(<<"Command executed.">>)]
                after == Exec(handler_code, local_vars)
            IN IF IsRaise(after)
               THEN [raised |-> "RuntimeError", v |-> None, local_vars |-> local_vars]
               ELSE [raised |-> "", v |-> PyStr(after.reply_text), local_vars |-> local_vars]

\* --------------------------------------------------------- handle_update
Apology == Str(<<"Sorry, something went wrong with that command.">>)
\* the greeting without its leading emoji, which a TLA+ string cannot hold
Greeting == Str(<<"Hello! I'm up and running. Use /help to see available commands.">>)
NoCommands == Str(<<"No commands configured for this bot yet.">>)
SendFailed == Str(<<"[send failed]">>)
HelpHeader == <<"*Available Commands:*\n">>
SlashStart == <<"/", "s", "t", "a", "r", "t">>
SlashHelp == <<"/", "h", "e", "l", "p">>

\* the command token of a text starting with "/", else None
CmdName(text) ==
    IF startswith(text, <<"/">>) THEN Str(lower(BeforeSep(FirstWord(text), "@"))) ELSE None

\* cmd_map[cname] = c: a new key goes last, an old key keeps its place
MapPut(cmd_map, cname, c) ==
    IF \E i \in 1..Len(cmd_map) : cmd_map[i].name = cname
    THEN [i \in 1..Len(cmd_map) |->
             IF cmd_map[i].name = cname THEN [name |-> cname, cmd |-> c] ELSE cmd_map[i]]
    ELSE Append(cmd_map, [name |-> cname, cmd |-> c])

MapHas(cmd_map, cname) == \E i \in 1..Len(cmd_map) : cmd_map[i].name = cname

MapGet(cmd_map, cname) ==
    cmd_map[CHOOSE i \in 1..Len(cmd_map) : cmd_map[i].name = cname].cmd

\* the loop over the fetched commands, from the state st of the scan so far
RECURSIVE ScanCommands(_, _)
ScanCommands(commands, st) ==
    IF commands = <<>> \/ st.raised THEN st
    ELSE LET c == Head(commands)
         IN IF ~IsDict(c) THEN ScanCommands(Tail(commands), st)
            ELSE LET name == Get(c, "command_name", Str(<<>>))
                 IN IF ~IsStr(name) THEN [st EXCEPT !.raised = TRUE]
                    ELSE ScanCommands(Tail(commands),
                           [raised |-> FALSE,
                            cmd_map |-> MapPut(st.cmd_map, lower(name.s), c),
                            is_ai_bot |-> st.is_ai_bot \/ Truthy(Get(c, "is_ai_assistant", None)),
                            ai_system_prompt |->
                                IF Truthy(Get(c, "is_ai_assistant", None))
                                THEN Get(c, "ai_system_prompt", Str(<<>>))
                                ELSE st.ai_system_prompt])

\* cmd_map, is_ai_bot and ai_system_prompt; iterating anything but a list raises
BuildMap(commands) ==
    IF commands.t # "list"
    THEN [raised |-> TRUE, cmd_map |-> <<>>, is_ai_bot |-> FALSE, ai_system_prompt |-> Str(<<>>)]
    ELSE ScanCommands(commands.l,
           [raised |-> FALSE, cmd_map |-> <<>>, is_ai_bot |-> FALSE, ai_system_prompt |-> Str(<<>>)])

\* the back-tick character (U+0060), which a TLA+ string cannot hold
BackTick == "<U+0060>"

\* "\n".join(lines) of the /help listing
RECURSIVE HelpLines(_)
HelpLines(names) ==
    IF names = <<>> THEN <<>>
    ELSE <<"\n", BackTick>> \o Head(names) \o <<BackTick>> \o HelpLines(Tail(names))

HelpText(cmd_map) ==
    Str(HelpHeader \o HelpLines([i \in 1..Len(cmd_map) |-> cmd_map[i].name]))

\* the message handle_update works on
PickMessage(update) == Or(Get(update, "message", None), Get(update, "edited_message", None))

\* a drop test that forgets the text
DroppedChatOnly(chat_id, text) == ~Truthy(chat_id)

\* if not chat_id or not text
Dropped(chat_id, text) == ~Truthy(chat_id) \/ ~Truthy(text)

\* msg.get("text", "").strip()
TextOf(msg) ==
    LET raw == Get(msg, "text", Str(<<>>))
    IN IF IsRaise(raw) \/ ~IsStr(raw) THEN Raise ELSE Str(strip(raw.s))

\* a log that records the reply whatever the send reported
LoggedResponseAlways(reply, ok) == reply

\* reply if res.get("ok") else "[send failed]"
LoggedResponse(reply, ok) == IF Truthy(ok) THEN reply ELSE SendFailed

\* the result of one run: the outbound calls in order, whether an exception
\* left handle_update, the reply, and the variables a handler was run with
Result(raised, calls, reply, local_vars, branch) ==
    [raised |-> raised, calls |-> calls, reply |-> reply, local_vars |-> local_vars,
     branch |-> branch]

\* if reply: telegram_send, then log_message
Complete(host, token, chat_id, user_id, username, text, reply, calls, local_vars, branch, env) ==
    IF ~Truthy(reply) THEN Result(FALSE, calls, reply, local_vars, branch)
    ELSE LET sent == telegram_send(token, chat_id, reply, env.send)
             ok == Get(sent.v, "ok", None)
         IN IF IsRaise(ok) THEN Result(TRUE, calls \o sent.calls, reply, local_vars, branch)
            ELSE Result(FALSE,
                        calls \o sent.calls
                              \o log_message(host, token, user_id, username, text,
                                             LoggedResponse(reply, ok)),
                        reply, local_vars, branch)

\* the branches after the drop test
Dispatch(host, token, update, chat_id, user_id, username, text, env) ==
    LET cmd_name == CmdName(text.s)
        fetched == get_bot_commands(host, token, env.commands)
        built == BuildMap(fetched.v)
        cmd_map == built.cmd_map
    IN IF built.raised THEN Result(TRUE, fetched.calls, None, NoVars, "fault")
       ELSE IF Truthy(cmd_name) /\ MapHas(cmd_map, cmd_name.s)
       THEN LET cmd == MapGet(cmd_map, cmd_name.s)
                ran == execute_handler(Get(cmd, "handler_code", DefaultHandlerCode), text, update)
            IN CASE ran.raised = "" ->
                      Complete(host, token, chat_id, user_id, username, text, ran.v,
                               fetched.calls, ran.local_vars, "command", env)
                 [] ran.raised = "RuntimeError" ->
                      Complete(host, token, chat_id, user_id, username, text, Apology,
                               fetched.calls \o log_error(host, token, cmd_name,
                                                          Str(<<"Handler error">>), user_id),
                               ran.local_vars, "command", env)
                 [] OTHER -> Result(TRUE, fetched.calls, None, NoVars, "fault")
       ELSE IF built.is_ai_bot /\ Truthy(text) /\ ~startswith(text.s, <<"/">>)
       THEN LET ai == call_ai(host, token, text, built.ai_system_prompt, env.ai)
            IN Complete(host, token, chat_id, user_id, username, text, ai.v,
                        fetched.calls \o ai.calls, NoVars, "ai", env)
       ELSE IF text.s = SlashStart
       THEN Complete(host, token, chat_id, user_id, username, text, Greeting,
                     fetched.calls, NoVars, "start", env)
       ELSE IF text.s = SlashHelp
       THEN Complete(host, token, chat_id, user_id, username, text,
                     IF cmd_map # <<>> THEN HelpText(cmd_map) ELSE NoCommands,
                     fetched.calls, NoVars, "help", env)
       ELSE Complete(host, token, chat_id, user_id, username, text, None,
                     fetched.calls, NoVars, "none", env)

handle_update(host, token, update, env) ==
    LET msg == PickMessage(update)
    IN IF IsRaise(msg) THEN Result(TRUE, <<>>, None, NoVars, "fault")
       ELSE IF ~Truthy(msg) THEN Result(FALSE, <<>>, None, NoVars, "drop")
       ELSE LET chat_id == Get(Get(msg, "chat", EmptyObj), "id", None)
                user_id == Get(Get(msg, "from", EmptyObj), "id", Num(0))
                username == Get(Get(msg, "from", EmptyObj), "username", Str(<<>>))
                text == TextOf(msg)
            IN IF IsRaise(chat_id) \/ IsRaise(user_id) \/ IsRaise(username) \/ IsRaise(text)
               THEN Result(TRUE, <<>>, None, NoVars, "fault")
               ELSE IF Dropped(chat_id, text) THEN Result(FALSE, <<>>, None, NoVars, "drop")
               ELSE Dispatch(host, token, update, chat_id, user_id, username, text, env)

\* ------------------------------------------------------ HTTP entry point
\* A request path is a sequence of pieces: "/" and "?" are pieces of their
\* own, every other piece is a run of characters holding neither.
Webhook == <<"/", "webhook", "/">>

\* self.path.split("?")[0].rstrip("/")
RoutePath(raw) == rstrip(BeforeSep(raw, "?"), "/")

Json(code, body) == [code |-> code, body |-> body]
NotFound == Json(404, [error |-> "Not found"])
MissingToken == Json(400, [error |-> "Missing token"])
BadJson == Json(400, [error |-> "Bad JSON"])
OkTrue == Json(200, [ok |-> TRUE])
Health(host) ==
    Json(200, [status |-> "ok", platform |-> "BotForge",
               php_host |-> IF host THEN "https://php.host" ELSE "NOT SET"])
Descriptor ==
    Json(200, [message |-> "BotForge Webhook Backend", webhook |-> "/webhook/{your_bot_token}",
               health |-> "/health"])

\* do_GET: the response to GET raw
GetResponse(host, raw) ==
    LET path == RoutePath(raw)
    IN IF path \in {<<"/", "health">>, <<"/", "api", "/", "health">>} THEN Health(host)
       ELSE IF path = <<"/">> THEN Descriptor
       ELSE NotFound

\* a body json.loads rejects (or a Content-Length that is no number)
Unparsable == [t |-> "unparsable"]

NotHandled == [t |-> "none"]

\* a webhook route without the blanket except
AfterHandleNoCatch(r) ==
    IF r.raised THEN Json(500, [error |-> "Internal Server Error"]) ELSE OkTrue

\* try: handle_update(token, update) / except Exception: pass, then the 200
AfterHandle(r) == OkTrue

\* do_POST: the response to POST raw with the body, and what handle_update did
PostResult(host, raw, body, env) ==
    LET path == RoutePath(raw)
    IN IF startswith(path, Webhook)
       THEN LET token == SubSeq(path, Len(Webhook) + 1, Len(path))
            IN IF token = <<>> THEN [response |-> MissingToken, outcome |-> NotHandled]
               ELSE IF body = Unparsable THEN [response |-> BadJson, outcome |-> NotHandled]
               ELSE LET r == handle_update(host, token, body, env)
                    IN [response |-> AfterHandle(r),
                        outcome |-> [t |-> "handled", token |-> token, env |-> env, r |-> r]]
       ELSE [response |-> NotFound, outcome |-> NotHandled]

\* ------------------------------------------------------------ the inputs
PathPieces == {"/", "?", "health", "api", "webhook", "tok"}

\* request targets in origin form
Paths ==
    {p \in UNION {[1..n -> PathPieces] : n \in 1..MaxPathLen} : p[1] = "/"}

Texts ==
    {<<"/", "s", "t", "a", "r", "t">>,
     <<" ", "/", "S", "t", "a", "r", "t", "@", "b", " ", "x">>,
     <<"/", "h", "e", "l", "p">>,
     <<"/", "f", "o", "o">>,
     <<"/", "F", "o", "o", "@", "b", " ", "h", "i", " ">>,
     <<"/", "b", "a", "r">>,
     <<"h", "i">>,
     <<" ", " ">>}

TextValues == {Str(x) : x \in Texts} \cup {Num(1)}

Chats == {EmptyObj, [t |-> "obj", id |-> Num(0)], [t |-> "obj", id |-> Num(5)]}

Bob == [t |-> "obj", id |-> Num(7), username |-> Str(<<"bob">>), first_name |-> Str(<<"Bob">>)]
Eve == [t |-> "obj", id |-> Num(8), username |-> Str(<<"eve">>), first_name |-> Str(<<"Eve">>)]

Messages ==
    {[t |-> "obj", chat |-> c, from |-> Bob, text |-> x] : c \in Chats, x \in TextValues}
    \cup {[t |-> "obj", chat |-> c, text |-> x] : c \in Chats, x \in TextValues}
    \cup {[t |-> "obj", from |-> Bob, text |-> x] : x \in TextValues}
    \cup {[t |-> "obj", chat |-> c, from |-> Bob] : c \in Chats}

\* what the "message" or "edited_message" key of an update can hold
MessageValues == Messages \cup {None, EmptyObj, Num(1)}

OtherMessage ==
    [t |-> "obj", chat |-> [t |-> "obj", id |-> Num(6)], from |-> Eve,
     text |-> Str(<<"/", "b", "a", "r">>)]

Updates ==
    {[t |-> "obj", message |-> m] : m \in MessageValues}
    \cup {[t |-> "obj", edited_message |-> m] : m \in MessageValues}
    \cup {[t |-> "obj", message |-> f, edited_message |-> m] :
             f \in {None, EmptyObj}, m \in MessageValues}
    \cup {[t |-> "obj", message |-> m, edited_message |-> OtherMessage] : m \in Messages}
    \cup {EmptyObj, List(<<>>), Num(1)}

\* every parsed body is tried on this path, a few bodies on the others
TokenPath == <<"/", "webhook", "/", "tok">>

FewBodies ==
    {Unparsable, List(<<>>), EmptyObj,
     [t |-> "obj", message |->
         [t |-> "obj", chat |-> [t |-> "obj", id |-> Num(5)], from |-> Bob,
          text |-> Str(SlashStart)]]}

Bodies(raw) == IF raw = TokenPath THEN Updates \cup {Unparsable} ELSE FewBodies

CommandPool ==
    {[t |-> "obj", command_name |-> Str(<<"/", "f", "o", "o">>), handler_code |-> CodeDivZero],
     [t |-> "obj", command_name |-> Str(<<"/", "f", "o", "o">>), handler_code |-> None],
     [t |-> "obj", command_name |-> Str(<<"/", "F", "o", "o">>)],
     [t |-> "obj", command_name |-> Str(<<"/", "b", "a", "r">>), handler_code |-> CodeFirstName],
     [t |-> "obj", command_name |-> Str(<<"/", "b", "a", "r">>), handler_code |-> Num(1)],
     [t |-> "obj", command_name |-> Str(SlashStart), handler_code |-> CodePass],
     [t |-> "obj", command_name |-> Str(SlashHelp), handler_code |-> CodeEmpty],
     [t |-> "obj", command_name |-> Str(<<"/", "a", "i">>), is_ai_assistant |-> Bool(TRUE),
      ai_system_prompt |-> Str(<<"Be brief.">>)],
     [t |-> "obj", command_name |-> Num(1)],
     Str(<<"x">>)}

CommandLists == UNION {[1..n -> CommandPool] : n \in 0..MaxCommands}

\* answers of /api/get-bot-commands.php
BackendAnswers ==
    {[t |-> "obj", commands |-> List(l), is_ai_assistant |-> Bool(b)] :
        l \in CommandLists, b \in BOOLEAN}
    \cup {Fail, List(<<>>), EmptyObj, [t |-> "obj", commands |-> None]}

\* answers of /api/ai-chat.php
AiAnswers ==
    {Fail, EmptyObj, [t |-> "obj", reply |-> Str(<<"pong">>)], [t |-> "obj", reply |-> Str(<<>>)]}

\* answers of sendMessage
SendAnswers == {Fail, [t |-> "obj", ok |-> Bool(TRUE)], [t |-> "obj", ok |-> Bool(FALSE)], List(<<>>)}

Made(r, op) == \E i \in 1..Len(r.calls) : r.calls[i].op = op

\* an answer is drawn only for a call that is made
AnswersIf(made, answers) == IF made THEN answers ELSE {Fail}

Env(c, a, s) == [commands |-> c, ai |-> a, send |-> s]

\* -------------------------------------------------------- the state machine
NoRequest == [t |-> "none"]
NoResponse == [code |-> 0]

Init ==
    /\ PHP_HOST \in BOOLEAN
    /\ pc = "idle"
    /\ request = NoRequest
    /\ outcome = NotHandled
    /\ response = NoResponse

do_GET ==
    /\ pc = "idle"
    /\ \E raw \in Paths :
          /\ request' = [t |-> "GET", path |-> raw]
          /\ response' = GetResponse(PHP_HOST, raw)
    /\ outcome' = NotHandled
    /\ pc' = "done"
    /\ UNCHANGED PHP_HOST

do_POST ==
    /\ pc = "idle"
    /\ \E raw \in Paths : \E body \in Bodies(raw) :
          LET handled == PostResult(PHP_HOST, raw, body, Env(Fail, Fail, Fail)).outcome # NotHandled
              token == IF handled
                       THEN PostResult(PHP_HOST, raw, body, Env(Fail, Fail, Fail)).outcome.token
                       ELSE <<>>
          IN \E c \in AnswersIf(handled /\ Made(handle_update(PHP_HOST, token, body,
                                                  Env(Fail, Fail, Fail)), "getBotCommands"),
                                BackendAnswers) :
             \E a \in AnswersIf(handled /\ Made(handle_update(PHP_HOST, token, body,
                                                  Env(c, Fail, Fail)), "aiChat"),
                                AiAnswers) :
             \E s \in AnswersIf(handled /\ Made(handle_update(PHP_HOST, token, body,
                                                  Env(c, a, Fail)), "sendMessage"),
                                SendAnswers) :
                LET res == PostResult(PHP_HOST, raw, body, Env(c, a, s))
                IN /\ request' = [t |-> "POST", path |-> raw, body |-> body]
                   /\ response' = res.response
                   /\ outcome' = res.outcome
    /\ pc' = "done"
    /\ UNCHANGED PHP_HOST

\* the handler object of one request is discarded with everything it held
finish ==
    /\ pc = "done"
    /\ pc' = "idle"
    /\ request' = NoRequest
    /\ outcome' = NotHandled
    /\ response' = NoResponse
    /\ UNCHANGED PHP_HOST

Next == do_GET \/ do_POST \/ finish

Spec == Init /\ [][Next]_vars

\* ------------------------------------------------------------ the claims
Done == pc = "done"
Handled == Done /\ outcome.t = "handled"

\* the request path up to its query string
PathOnly == BeforeSep(request.path, "?")

\* the message the update is about, and its fields
TheMsg == PickMessage(request.body)
HasMsg == ~IsRaise(TheMsg) /\ IsDict(TheMsg) /\ Truthy(TheMsg)
TheChatId == Get(Get(TheMsg, "chat", EmptyObj), "id", None)
TheText == TextOf(TheMsg)

\* handle_update got past the drop test
Accepted ==
    /\ Handled
    /\ HasMsg
    /\ ~IsRaise(TheChatId) /\ Truthy(TheChatId)
    /\ ~IsRaise(Get(Get(TheMsg, "from", EmptyObj), "id", None))
    /\ ~IsRaise(TheText) /\ Truthy(TheText)

\* the commands configured for the bot, as the PHP host answered
Configured ==
    BuildMap(get_bot_commands(PHP_HOST, outcome.token, outcome.env.commands).v)

CallsOf(op) == {i \in 1..Len(outcome.r.calls) : outcome.r.calls[i].op = op}

\* C1: a POST to /webhook/{token} with a non-empty token and a body that
\* parses as JSON is answered 200 {ok: true}, whatever handle_update does.
C1_Always200 ==
    (/\ Done
     /\ request.t = "POST"
     /\ startswith(PathOnly, Webhook)
     /\ \E i \in (Len(Webhook) + 1)..Len(PathOnly) : PathOnly[i] # "/"
     /\ request.body # Unparsable)
    => response = OkTrue

\* handle_update raised on a JSON body and the caller still got its 200
C1_Witness ==
    /\ Handled
    /\ outcome.r.raised
    /\ Made(outcome.r, "getBotCommands")
    /\ response = OkTrue

\* C2: an update without a message and an edited_message, or whose message
\* has no chat identifier or no text left after trimming, causes no outbound
\* call and no handler execution.
C2_DroppedIsSilent ==
    (/\ Handled
     /\ \/ ~HasMsg
        \/ IsRaise(TheChatId) \/ ~Truthy(TheChatId)
        \/ IsRaise(TheText) \/ ~Truthy(TheText))
    => (outcome.r.calls = <<>> /\ outcome.r.local_vars = NoVars /\ ~Truthy(outcome.r.reply))

\* a message with a chat identifier whose text is blank, with the PHP host set
C2_Witness ==
    /\ Handled
    /\ PHP_HOST
    /\ HasMsg
    /\ ~IsRaise(TheChatId) /\ Truthy(TheChatId)
    /\ ~IsRaise(TheText) /\ TheText = Str(<<>>)
    /\ outcome.r.calls = <<>>

\* a handler was run for the update: the command it was run for
Evaluated == Handled /\ outcome.r.local_vars # NoVars
TheCmd == MapGet(Configured.cmd_map, CmdName(TheText.s).s)

SendOk == [t |-> "obj", ok |-> Bool(TRUE)]

\* C4: logMessage follows exactly one sendMessage, with the reply as its
\* response when the send reported success and "[send failed]" otherwise;
\* without a reply there is neither a send nor a logMessage.
C4_LogAfterSend ==
    Handled =>
       /\ \A i \in CallsOf("logMessage") :
             /\ Cardinality(CallsOf("sendMessage")) = 1
             /\ \A j \in CallsOf("sendMessage") :
                   /\ j < i
                   /\ outcome.r.calls[j].text = outcome.r.reply
                   /\ outcome.r.calls[i].response =
                         IF outcome.env.send = SendOk THEN outcome.r.calls[j].text
                         ELSE SendFailed
       /\ ~Truthy(outcome.r.reply) =>
             (CallsOf("sendMessage") = {} /\ CallsOf("logMessage") = {})

\* a send that failed was logged with the sentinel
C4_Witness ==
    /\ Handled
    /\ outcome.env.send = Fail
    /\ \E i \in CallsOf("logMessage") :
          /\ outcome.r.calls[i].response = SendFailed
          /\ \E j \in CallsOf("sendMessage") : j < i

\* the configuration the PHP host answered has the AI-assistant flag set,
\* at bot level or on one of its commands
C5_AiFlagSet ==
    LET answer == outcome.env.commands
    IN /\ IsDict(answer)
       /\ \/ Truthy(Get(answer, "is_ai_assistant", None))
          \/ Configured.is_ai_bot

\* C5: with the AI-assistant flag set and a text that does not start with
\* "/", the reply is what the AI-chat call returned and no handler ran.
C5_AiReply ==
    (/\ Accepted
     /\ PHP_HOST
     /\ ~Configured.raised
     /\ C5_AiFlagSet
     /\ ~startswith(TheText.s, <<"/">>))
    => /\ Cardinality(CallsOf("aiChat")) = 1
       /\ outcome.r.reply =
             call_ai(PHP_HOST, outcome.token, TheText, Configured.ai_system_prompt,
                     outcome.env.ai).v
       /\ outcome.r.local_vars = NoVars

\* code-point order of the characters of command names
Alphabet == <<"/", "a", "b", "e", "f", "h", "i", "l", "o", "p", "r", "s", "t">>
Ord(c) == CHOOSE i \in 1..Len(Alphabet) : Alphabet[i] = c

RECURSIVE StrLess(_, _)
StrLess(a, b) ==
    IF b = <<>> THEN FALSE
    ELSE IF a = <<>> THEN TRUE
    ELSE IF Head(a) = Head(b) THEN StrLess(Tail(a), Tail(b))
    ELSE Ord(Head(a)) < Ord(Head(b))

\* C6: "/help" without a configured "/help" lists every configured command
\* name once, back-tick quoted, in sorted order.
C6_HelpSorted ==
    (/\ Accepted
     /\ TheText.s = SlashHelp
     /\ ~Configured.raised
     /\ Configured.cmd_map # <<>>
     /\ ~MapHas(Configured.cmd_map, SlashHelp))
    => outcome.r.reply =
          Str(HelpHeader \o
              HelpLines(SortSeq([i \in 1..Len(Configured.cmd_map) |->
                                    Configured.cmd_map[i].name], StrLess)))

\* s holds piece x
Contains(s, x) == \E i \in 1..Len(s) : s[i] = x

\* C7: a command token "/start" without a configured "/start" is answered
\* with the greeting, which holds the sender's first name.
C7_StartGreeting ==
    (/\ Accepted
     /\ CmdName(TheText.s) = Str(SlashStart)
     /\ ~Configured.raised
     /\ ~MapHas(Configured.cmd_map, SlashStart)
     /\ "from" \in DOMAIN TheMsg)
    => /\ outcome.r.branch = "start"
       /\ IsStr(outcome.r.reply)
       /\ \A i \in 1..Len(TheMsg.from.first_name.s) :
             Contains(outcome.r.reply.s, TheMsg.from.first_name.s[i])

\* C8: a POST to "/webhook/" with nothing but slashes after it is rejected
\* with 400 "Missing token" and handle_update is not called.
C8_MissingToken ==
    (/\ Done
     /\ request.t = "POST"
     /\ startswith(PathOnly, Webhook)
     /\ \A i \in (Len(Webhook) + 1)..Len(PathOnly) : PathOnly[i] = "/")
    => (response = MissingToken /\ outcome = NotHandled)

\* p without one trailing slash
NoTrailingSlash(p) ==
    IF Len(p) > 1 /\ p[Len(p)] = "/" THEN SubSeq(p, 1, Len(p) - 1) ELSE p

\* C9: GET /health and /api/health answer the status payload, GET / the
\* endpoint descriptor, and every other path 404.
C9_GetRoutes ==
    (Done /\ request.t = "GET") =>
       /\ NoTrailingSlash(PathOnly) \in {<<"/", "health">>, <<"/", "api", "/", "health">>}
             => response = Health(PHP_HOST)
       /\ PathOnly = <<"/">> => response = Descriptor
       /\ RoutePath(request.path) \notin {<<>>, <<"/", "health">>, <<"/", "api", "/", "health">>}
             => response = NotFound

\* C10: the chat_id, username and first_name a handler runs with are those
\* of the message handle_update took the text and the chat identifier from.
C10_HandlerSeesTheMessage ==
    (Handled /\ outcome.r.local_vars # NoVars) =>
       /\ outcome.r.local_vars.chat_id = TheChatId
       /\ outcome.r.local_vars.username =
             Get(Get(TheMsg, "from", EmptyObj), "username", Str(<<"user">>))
       /\ outcome.r.local_vars.first_name =
             Get(Get(TheMsg, "from", EmptyObj), "first_name", Str(<<"there">>))

====
